---- MODULE Spec2Model ----
(***************************************************************************)
(* A model of merk's in-memory sparse Merkle AVL tree                      *)
(* (src/rust/src/sparse_tree.rs).  A SparseTree value is a record          *)
(*   [node |-> Node, left |-> Option(SparseTree), right |-> ...]           *)
(* and every method that takes `&mut self` is an operator from the old     *)
(* value of `self` to the new one.  Option<T> is a sequence of length 0    *)
(* (None) or 1 (Some(x)).  Byte strings are sequences of byte values.      *)
(***************************************************************************)
EXTENDS Integers, Sequences, FiniteSets, TLC

VARIABLES tree, db, status, last, fetched, reference, applied

vars == <<tree, db, status, last, fetched, reference, applied>>

(***************************************************************************)
(* Bounds of the model.                                                    *)
(***************************************************************************)
\* number of distinct keys put into a tree built from a singleton
MaxKeys == 6
\* number of keys committed to the backing store of a reopened tree
MaxCommitted == 10
\* number of puts applied to a reopened (partially hydrated) tree
MaxPuts == 2

(***************************************************************************)
(* Option<T>                                                               *)
(***************************************************************************)
None == <<>>

Some(x) == <<x>>

unwrap(o) == o[1]

(***************************************************************************)
(* Byte strings.  Keys are the decimal strings of small numbers, as in     *)
(* the test simple_put (i.to_string().into_bytes()), so that the byte      *)
(* order differs from the numeric order and one key can be a prefix of     *)
(* another.                                                                *)
(***************************************************************************)
to_string(i) == IF i < 10 THEN <<48 + i>> ELSE <<48 + (i \div 10), 48 + (i % 10)>>

Min(a, b) == IF a < b THEN a ELSE b

Max(a, b) == IF a < b THEN b ELSE a

Abs(x) == IF x < 0 THEN -x ELSE x

\* `a < b` on byte slices: lexicographic, a proper prefix is smaller
BytesLess(a, b) ==
    \/ \E i \in 1..Min(Len(a), Len(b)) :
          /\ \A j \in 1..(i - 1) : a[j] = b[j]
          /\ a[i] < b[i]
    \/ /\ Len(a) < Len(b)
       /\ \A j \in 1..Len(a) : a[j] = b[j]

(***************************************************************************)
(* Node and Link (crate::node).                                            *)
(***************************************************************************)
NullHash == <<>>

Node_new(key, value) ==
    [key |-> key, value |-> value, parent_key |-> None,
     left_link |-> None, right_link |-> None]

child_link(node, left) == IF left THEN node.left_link ELSE node.right_link

Node_set_child(node, left, link) ==
    IF left THEN [node EXCEPT !.left_link = link]
            ELSE [node EXCEPT !.right_link = link]

set_value(node, value) == [node EXCEPT !.value = value]

set_parent(node, parent_key) == [node EXCEPT !.parent_key = parent_key]

child_height(node, left) ==
    IF child_link(node, left) = None THEN 0
    ELSE unwrap(child_link(node, left)).height

height(node) == 1 + Max(child_height(node, TRUE), child_height(node, FALSE))

balance_factor(node) == child_height(node, FALSE) - child_height(node, TRUE)

link_hash(node, left) ==
    IF child_link(node, left) = None THEN NullHash
    ELSE unwrap(child_link(node, left)).hash

\* the Merkle hash: binds key, value and both child hashes, left then right
hash(node) == <<node.key, node.value, link_hash(node, TRUE), link_hash(node, FALSE)>>

as_link(t) == [key |-> t.node.key, hash |-> hash(t.node), height |-> height(t.node)]

(***************************************************************************)
(* SparseTree                                                              *)
(***************************************************************************)
SparseTree_new(node) == [node |-> node, left |-> None, right |-> None]

child_field(t, left) == IF left THEN t.left ELSE t.right

with_child_field(t, left, c) ==
    IF left THEN [t EXCEPT !.left = c] ELSE [t EXCEPT !.right = c]

child_tree(t, left) == child_field(t, left)

(***************************************************************************)
(* Effects of one call of put, threaded through the methods: the links     *)
(* get_node was invoked for, the panic (if any) unwinding the call, the    *)
(* number of calls of rotate and what every rebalancing maybe_rebalance    *)
(* did.  A result is [t |-> the new value of self, fx |-> the effects].    *)
(***************************************************************************)
NoEffects == [fetched |-> <<>>, panic |-> "none", rotations |-> 0, rebalances |-> <<>>]

Result(t, fx) == [t |-> t, fx |-> fx]

Panicked(fx) == fx.panic # "none"

Panic(fx, what) == [fx EXCEPT !.panic = what]

\* get_node: the record of link.key in the backing store; a failing fetch
\* panics, like the closure of simple_put
has_node(store, link) == link.key \in DOMAIN store

get_node(store, link) == store[link.key]

\* faulty variant: a link once stored is never refreshed
update_link_stale(self, left) ==
    IF child_tree(self, left) # None
       /\ child_link(self.node, left) # None
       /\ unwrap(child_link(self.node, left)).key = unwrap(child_tree(self, left)).node.key
    THEN self
    ELSE [self EXCEPT !.node = Node_set_child(self.node, left,
              IF child_tree(self, left) = None THEN None
              ELSE Some(as_link(unwrap(child_tree(self, left)))))]

\* the link becomes the as_link() of the child tree in memory, and None when
\* there is no child tree in memory
update_link(self, left) ==
    [self EXCEPT !.node = Node_set_child(self.node, left,
        IF child_tree(self, left) = None THEN None
        ELSE Some(as_link(unwrap(child_tree(self, left)))))]

\* faulty variant: the child's parent_key is left as it was
set_child_no_parent(self, left, child) ==
    update_link(with_child_field(self, left, child), left)

\* sets the child field, updates the link, then points the child's
\* parent_key to self
set_child(self, left, child) ==
    with_child_field(update_link(with_child_field(self, left, child), left), left,
        IF child = None THEN None
        ELSE Some([unwrap(child) EXCEPT !.node = set_parent(@, Some(self.node.key))]))

\* the closure of get_or_insert_with: Box::new(SparseTree::get(&link, get_node))
get_or_insert_with(store, self, left, link, fx) ==
    IF has_node(store, link)
    THEN Result(with_child_field(self, left, Some(SparseTree_new(get_node(store, link)))),
                [fx EXCEPT !.fetched = Append(@, link)])
    ELSE Result(self, Panic([fx EXCEPT !.fetched = Append(@, link)], "get_node"))

\* faulty variant: the child is fetched whenever there is a link
maybe_get_child_refetch(store, self, left, fx) ==
    IF child_link(self.node, left) = None THEN Result(self, fx)
    ELSE get_or_insert_with(store, self, left, unwrap(child_link(self.node, left)), fx)

\* faulty variant: a failed fetch is taken for "no child"
maybe_get_child_swallow(store, self, left, fx) ==
    IF child_link(self.node, left) = None THEN Result(self, fx)
    ELSE IF child_field(self, left) # None THEN Result(self, fx)
    ELSE IF has_node(store, unwrap(child_link(self.node, left)))
    THEN get_or_insert_with(store, self, left, unwrap(child_link(self.node, left)), fx)
    ELSE Result(self, [fx EXCEPT !.fetched = Append(@, unwrap(child_link(self.node, left)))])

\* the child field is filled from the link only when it is empty
\* (Option::get_or_insert_with); the Option returned is child_field of the
\* result when there is a link, None when there is none
maybe_get_child(store, self, left, fx) ==
    IF child_link(self.node, left) = None THEN Result(self, fx)
    ELSE IF child_field(self, left) # None THEN Result(self, fx)
    ELSE get_or_insert_with(store, self, left, unwrap(child_link(self.node, left)), fx)

\* faulty variant: the nodes are exchanged, the child fields are not
swap_nodes_only(self, other) ==
    [self |-> [self EXCEPT !.node = set_parent(other.node, self.node.parent_key)],
     other |-> [other EXCEPT !.node = set_parent(self.node, other.node.parent_key)]]

\* exchanges the nodes and the child fields of self and other; each box
\* keeps its own parent_key
swap(self, other) ==
    [self |-> [node |-> set_parent(other.node, self.node.parent_key),
               left |-> other.left, right |-> other.right],
     other |-> [node |-> set_parent(self.node, other.node.parent_key),
                left |-> self.left, right |-> self.right]]

\* rotate, after the swap: self.update_link(left); child.update_link(!left);
\* self.set_child(!left, Some(child))
rotate_relink(left, sw, fx) ==
    Result(set_child(update_link(sw.self, left), ~left,
                     Some(update_link(sw.other, ~left))),
           fx)

\* rotate, once the child is taken out of self (g: the child after its
\* maybe_get_child(!left)): the grandchild is taken out of the child and
\* set as child of self, then self and child are swapped
rotate_grandchild(left, self, g) ==
    IF Panicked(g.fx) THEN Result(self, g.fx)
    ELSE rotate_relink(left,
             swap(set_child(self, left, child_field(g.t, ~left)),
                  with_child_field(g.t, ~left, None)),
             g.fx)

\* rotate, after self.maybe_get_child(left) (g): take().unwrap() of the child
rotate_child(store, left, g) ==
    IF Panicked(g.fx) THEN g
    ELSE IF child_field(g.t, left) = None THEN Result(g.t, Panic(g.fx, "unwrap"))
    ELSE rotate_grandchild(left, with_child_field(g.t, left, None),
             maybe_get_child(store, unwrap(child_field(g.t, left)), ~left, g.fx))

rotate(store, self, left, fx) ==
    rotate_child(store, left,
        maybe_get_child(store, self, left, [fx EXCEPT !.rotations = @ + 1]))

\* the heavy child leans the other way
is_double(left, child) ==
    IF left THEN balance_factor(child.node) > 0
            ELSE balance_factor(child.node) < 0

RebalanceEvent(before, double, after) ==
    [key |-> before.node.key,
     balance_before |-> balance_factor(before.node),
     height_before |-> height(before.node),
     double |-> double,
     balance_after |-> balance_factor(after.node),
     height_after |-> height(after.node)]

\* maybe_rebalance, after self.rotate(left) (r)
rebalance_done(before, double, r) ==
    IF Panicked(r.fx) THEN r
    ELSE Result(r.t, [r.fx EXCEPT !.rebalances =
                         Append(@, RebalanceEvent(before, double, r.t))])

\* if double { child.rotate(!left) (rc); self.update_link(left) }
rotate_double(left, self, rc) ==
    Result(IF Panicked(rc.fx) THEN with_child_field(self, left, Some(rc.t))
           ELSE update_link(with_child_field(self, left, Some(rc.t)), left),
           rc.fx)

\* maybe_rebalance, after the test of double (d: self after the rotation of
\* the child, if any): self.rotate(left)
rebalance_rotate(store, before, left, double, d) ==
    IF Panicked(d.fx) THEN d
    ELSE rebalance_done(before, double, rotate(store, d.t, left, d.fx))

\* maybe_rebalance, after self.maybe_get_child(left) (g): unwrap of the child
rebalance_child(store, before, left, g) ==
    IF Panicked(g.fx) THEN g
    ELSE IF child_field(g.t, left) = None THEN Result(g.t, Panic(g.fx, "unwrap"))
    ELSE rebalance_rotate(store, before, left,
             is_double(left, unwrap(child_field(g.t, left))),
             IF is_double(left, unwrap(child_field(g.t, left)))
             THEN rotate_double(left, g.t,
                      rotate(store, unwrap(child_field(g.t, left)), ~left, g.fx))
             ELSE g)

maybe_rebalance(store, self, fx) ==
    IF Abs(balance_factor(self.node)) <= 1 THEN Result(self, fx)
    ELSE rebalance_child(store, self, balance_factor(self.node) < 0,
             maybe_get_child(store, self, balance_factor(self.node) < 0, fx))

RECURSIVE put(_, _, _, _, _)
\* put, after child_tree.put(key, value) (r): self.update_link(left), then
\* self.maybe_rebalance()
put_update_link(store, left, self, r) ==
    IF Panicked(r.fx) THEN Result(with_child_field(self, left, Some(r.t)), r.fx)
    ELSE maybe_rebalance(store,
             update_link(with_child_field(self, left, Some(r.t)), left), r.fx)

\* put, the match on self.maybe_get_child(left) (g)
put_child(store, key, value, left, g) ==
    IF Panicked(g.fx) THEN g
    ELSE IF child_field(g.t, left) # None
    THEN put_update_link(store, left, g.t,
             put(store, unwrap(child_field(g.t, left)), key, value, g.fx))
    ELSE maybe_rebalance(store,
             set_child(g.t, left, Some(SparseTree_new(Node_new(key, value)))),
             g.fx)

put(store, self, key, value, fx) ==
    IF self.node.key = key
    THEN Result([self EXCEPT !.node = set_value(@, value)], fx)
    ELSE put_child(store, key, value, BytesLess(key, self.node.key),
             maybe_get_child(store, self, BytesLess(key, self.node.key), fx))

\* faulty variant: the node is pushed before its left subtree is traversed
RECURSIVE entries_preorder(_)
entries_preorder(t) ==
    << <<t.node.key, t.node.value>> >>
    \o (IF child_tree(t, TRUE) = None THEN <<>>
        ELSE entries_preorder(unwrap(child_tree(t, TRUE))))
    \o (IF child_tree(t, FALSE) = None THEN <<>>
        ELSE entries_preorder(unwrap(child_tree(t, FALSE))))

RECURSIVE entries(_)
entries(t) ==
    (IF child_tree(t, TRUE) = None THEN <<>> ELSE entries(unwrap(child_tree(t, TRUE))))
    \o << <<t.node.key, t.node.value>> >>
    \o (IF child_tree(t, FALSE) = None THEN <<>> ELSE entries(unwrap(child_tree(t, FALSE))))

(***************************************************************************)
(* The inputs: keys "1", "10", "2", "11", "3", "12", ... and values "x",   *)
(* "y".                                                                    *)
(***************************************************************************)
KeyNumber(i) == IF i % 2 = 1 THEN (i + 1) \div 2 ELSE 9 + (i \div 2)

KeySet(n) == {to_string(KeyNumber(i)) : i \in 1..n}

Keys == KeySet(MaxKeys)

Values == {<<120>>, <<121>>}

(***************************************************************************)
(* The session: one tree, the backing store its get_node reads, and the    *)
(* puts applied to it.  `last` records the last call and its effects,      *)
(* `fetched` every link get_node was invoked for, `reference` a plain      *)
(* key-to-value map updated by the same puts.                              *)
(***************************************************************************)
\* `tracked`: the key of the call was in the reference map before the call
Call(op, tracked, fx) == [op |-> op, tracked |-> tracked, fx |-> fx]

\* SparseTree::new(Node::new(k0, v0), get_node), as in simple_put
Init ==
    \E k0 \in Keys, v0 \in Values :
        /\ tree = SparseTree_new(Node_new(k0, v0))
        /\ db = <<>>
        /\ status = "ok"
        /\ last = Call("new", FALSE, NoEffects)
        /\ fetched = <<>>
        /\ reference = (k0 :> v0)
        /\ applied = 0

\* the session after tree.put(key, value) returned or panicked (r)
After_put(key, value, r) ==
    /\ tree' = r.t
    /\ status' = IF Panicked(r.fx) THEN "panicked" ELSE "ok"
    /\ last' = Call("put", key \in DOMAIN reference, r.fx)
    /\ fetched' = fetched \o r.fx.fetched
    /\ reference' = IF Panicked(r.fx) THEN reference ELSE (key :> value) @@ reference

\* tree.put(key, value); a panic ends the session
Call_put(key, value) ==
    /\ status = "ok"
    /\ After_put(key, value, put(db, tree, key, value, NoEffects))
    /\ UNCHANGED db

Put(key, value) == Call_put(key, value) /\ UNCHANGED applied

Next == \E key \in Keys, value \in Values : Put(key, value)

Spec == Init /\ [][Next]_vars

(***************************************************************************)
(* A reopened tree.  An earlier session built a tree in memory from a      *)
(* singleton and its nodes were written to the backing store; this         *)
(* session starts from the stored root alone and hydrates the rest         *)
(* through get_node.  A store may have lost one record (§7: "underlying    *)
(* store corruption or missing record").                                   *)
(***************************************************************************)
RECURSIVE Build(_, _, _)
Build(t, i, n) ==
    IF i > n THEN t
    ELSE Build(put(<<>>, t, to_string(KeyNumber(i)), <<120>>, NoEffects).t, i + 1, n)

Committed(n) == Build(SparseTree_new(Node_new(to_string(KeyNumber(1)), <<120>>)), 2, n)

RECURSIVE nodes(_)
nodes(t) ==
    {t.node}
    \cup (IF t.left = None THEN {} ELSE nodes(unwrap(t.left)))
    \cup (IF t.right = None THEN {} ELSE nodes(unwrap(t.right)))

keys_of(t) == {n.key : n \in nodes(t)}

Store(t, lost) ==
    [k \in keys_of(t) \ lost |-> CHOOSE n \in nodes(t) : n.key = k]

SparseKeys == KeySet(MaxCommitted + MaxPuts)

\* the stored values are "x"; the reopened session writes "y"
SparseValues == {<<121>>}

\* the session over the stored root of the committed tree c
Reopen(c) ==
    \E lost \in {{}} \cup {{k} : k \in keys_of(c) \ {c.node.key}} :
        /\ tree = SparseTree_new(c.node)
        /\ db = Store(c, lost)
        /\ status = "ok"
        /\ last = Call("new", FALSE, NoEffects)
        /\ fetched = <<>>
        /\ reference = [k \in keys_of(c) |-> <<120>>]
        /\ applied = 0

InitSparse == \E n \in 1..MaxCommitted : Reopen(Committed(n))

\* the reopened session applies a batch of at most MaxPuts entries
Apply(key, value) ==
    /\ applied < MaxPuts
    /\ applied' = applied + 1
    /\ Call_put(key, value)

NextSparse == \E key \in SparseKeys, value \in SparseValues : Apply(key, value)

SpecSparse == InitSparse /\ [][NextSparse]_vars

(***************************************************************************)
(* What the claims speak of.                                               *)
(***************************************************************************)
\* every subtree in memory, the root included
RECURSIVE subtrees(_)
subtrees(t) ==
    {t}
    \cup (IF t.left = None THEN {} ELSE subtrees(unwrap(t.left)))
    \cup (IF t.right = None THEN {} ELSE subtrees(unwrap(t.right)))

Sides == {TRUE, FALSE}

Completed == status = "ok"

Rotated == last.op = "put" /\ last.fx.rotations > 0

DoubleRotated == \E i \in 1..Len(last.fx.rebalances) : last.fx.rebalances[i].double

StrictlyIncreasingKeys(es) ==
    \A i \in 1..(Len(es) - 1) : BytesLess(es[i][1], es[i + 1][1])

\* C1: in a tree built from a singleton by puts, entries() lists strictly
\* increasing keys (so no key twice), and a child in memory has a smaller key
\* than its parent exactly when it is the left child.
C1_KeysOrdered ==
    Completed =>
        /\ StrictlyIncreasingKeys(entries(tree))
        /\ \A s \in subtrees(tree) : \A left \in Sides :
              child_tree(s, left) # None =>
                  (BytesLess(unwrap(child_tree(s, left)).node.key, s.node.key) <=> left)

\* a put that rotated twice has just completed on a tree of five keys or
\* more, one of them a prefix of another
C1_Witness ==
    /\ Completed
    /\ DoubleRotated
    /\ Len(entries(tree)) >= 5
    /\ \E i \in 1..(Len(entries(tree)) - 1) :
          Len(entries(tree)[i][1]) < Len(entries(tree)[i + 1][1])

Balanced(t) == \A s \in subtrees(t) : Abs(balance_factor(s.node)) <= 1

\* C2: after every completed put every node has |balance factor| <= 1, the
\* balance factor being the recorded height of the right child minus the
\* recorded height of the left child.
C2_Balanced == Completed => Balanced(tree)

\* C3: after every completed put, the Link a node stores for a child in
\* memory is that child's as_link(): its key, its current hash, its current
\* height.
C3_LinksCurrent ==
    Completed =>
        \A s \in subtrees(tree) : \A left \in Sides :
            child_tree(s, left) # None =>
                child_link(s.node, left) = Some(as_link(unwrap(child_tree(s, left))))

\* a put that only overwrote the value of a key two levels below the root
\* (or deeper) has completed
C3_Witness ==
    /\ Completed
    /\ last.op = "put" /\ last.tracked /\ last.fx.rotations = 0
    /\ height(tree.node) >= 3
    /\ \E s \in subtrees(tree) :
          /\ s.node.value = <<121>>
          /\ height(s.node) = 1
          /\ s.node.parent_key # None
          /\ s.node.parent_key # Some(tree.node.key)

\* C5: after every completed put, a child in memory names as parent_key the
\* key of the node holding it, and the root has no parent_key.
C5_ParentKeys ==
    Completed =>
        /\ tree.node.parent_key = None
        /\ \A s \in subtrees(tree) : \A left \in Sides :
              child_tree(s, left) # None =>
                  unwrap(child_tree(s, left)).node.parent_key = Some(s.node.key)

C5_Witness == Completed /\ DoubleRotated /\ height(tree.node) >= 3

\* C4: entries() of a tree built from a singleton by puts is the reference
\* map updated by the same puts, in increasing key order: every key once,
\* with its latest value, and no other key.
C4_EntriesAreReference ==
    Completed =>
        LET es == entries(tree)
        IN  /\ StrictlyIncreasingKeys(es)
            /\ {es[i][1] : i \in 1..Len(es)} = DOMAIN reference
            /\ \A i \in 1..Len(es) : es[i][2] = reference[es[i][1]]
            /\ Len(es) = Cardinality(DOMAIN reference)

\* a rotating put has completed on a tree holding both values
C4_Witness ==
    /\ Completed
    /\ Rotated
    /\ Cardinality(DOMAIN reference) >= 5
    /\ \E k1, k2 \in DOMAIN reference : reference[k1] # reference[k2]

\* the keys and recorded heights of the nodes in memory, by position
RECURSIVE Shape(_)
Shape(t) ==
    <<IF t.left = None THEN <<>> ELSE Shape(unwrap(t.left)),
      t.node.key, height(t.node),
      IF t.right = None THEN <<>> ELSE Shape(unwrap(t.right))>>

ValuesOf(t, key) == {s.node.value : s \in {x \in subtrees(t) : x.node.key = key}}

\* C6: put(k, v1) then put(k, v2) gives the shape that put(k, v2) alone
\* gives, with v2 as the value of k in both; and a put of a key the tree
\* holds moves no node and rotates nothing.
C6_OverwriteKeepsShape ==
    Completed =>
        \A k \in Keys :
            LET once == [v \in Values |-> put(db, tree, k, v, NoEffects)]
            IN  /\ \A v1, v2 \in Values :
                      LET twice == put(db, once[v1].t, k, v2, NoEffects)
                      IN  (~Panicked(once[v1].fx) /\ ~Panicked(once[v2].fx)) =>
                              /\ ~Panicked(twice.fx)
                              /\ Shape(twice.t) = Shape(once[v2].t)
                              /\ ValuesOf(twice.t, k) = {v2}
                              /\ ValuesOf(once[v2].t, k) = {v2}
                              /\ twice.fx.rotations = 0
                /\ k \in keys_of(tree) =>
                      \A v \in Values :
                          /\ ~Panicked(once[v].fx)
                          /\ Shape(once[v].t) = Shape(tree)
                          /\ once[v].fx.rotations = 0

NoRepeatedFetch(log) ==
    \A i, j \in 1..Len(log) : i # j => log[i].key # log[j].key

\* every link of a node in memory has its child in memory
FullyInMemory(t) ==
    \A s \in subtrees(t) : \A left \in Sides :
        child_link(s.node, left) # None => child_tree(s, left) # None

\* C7: get_node is invoked only for a link whose child is not in memory and
\* at most once for a stored node; a put on a tree whose links all have
\* their child in memory (so any tree grown from a root without links)
\* invokes it never.
C7_FetchOnce ==
    [][/\ NoRepeatedFetch(fetched')
       /\ \A i \in 1..Len(last'.fx.fetched) :
             last'.fx.fetched[i].key \notin keys_of(tree)
       /\ FullyInMemory(tree) => last'.fx.fetched = <<>>]_vars

\* a second put has completed that fetched nothing although the first one
\* did, and unhydrated links remain
C7_Witness ==
    /\ Completed
    /\ applied = 2
    /\ Len(fetched) >= 2
    /\ last.fx.fetched = <<>>
    /\ last.fx.rotations > 0
    /\ ~FullyInMemory(tree)

FetchFailed(fx) == \E i \in 1..Len(fx.fetched) : ~has_node(db, fx.fetched[i])

C9_UnhydratedLinksKept ==
    [][Completed' =>
         \A s \in subtrees(tree) : \A left \in Sides :
             (/\ child_link(s.node, left) # None
              /\ child_tree(s, left) = None
              /\ unwrap(child_link(s.node, left)).key \notin keys_of(tree'))
                 => \A s2 \in subtrees(tree') :
                        s2.node.key = s.node.key
                            => child_link(s2.node, left) = child_link(s.node, left)]_vars

\* C10: a rebalancing during a put on a balanced tree leaves the node at that
\* position with |balance factor| <= 1 and a subtree one lower than before.
C10_RebalanceRestores ==
    [][(Completed' /\ Balanced(tree)) =>
         \A i \in 1..Len(last'.fx.rebalances) :
             LET e == last'.fx.rebalances[i]
             IN  /\ Abs(e.balance_before) > 1
                 /\ Abs(e.balance_after) <= 1
                 /\ e.height_after = e.height_before - 1]_vars

====
